---- MODULE Spec2Model ----
(***************************************************************************)
(* Donor churn pipeline (HSM Machine Learning Algorithm).                  *)
(*                                                                         *)
(* Part I  : build_snapshot_churn_dataset (RetentionPredictor.py 186-318). *)
(* Part II : feature-matrix encoding, training mode                        *)
(*           (train_gradient_boosting_model) and inference mode            *)
(*           (build_feature_matrix, interactive_predict_from_csv).         *)
(*                                                                         *)
(* Representation.                                                         *)
(*   - A date is a whole number of days since an epoch (>= 0); the         *)
(*     missing date NaT is a value below every date and every date         *)
(*     difference the model can form.                                      *)
(*     A Timedelta of n days is the integer n and snapshot_freq "<n>D"     *)
(*     is the integer n.                                                   *)
(*   - An amount is an integer; the missing amount NaN is the value NaN    *)
(*     below.  Pandas reductions skip NaN (skipna=True).                   *)
(*   - A real result is an exact fraction <<num, den>> in lowest terms.    *)
(*     std_amt_past holds the radicand of the population standard          *)
(*     deviation (the variance): the deviation is its square root, so it   *)
(*     is 0 exactly when the fraction is <<0, 1>>.  The float NaN result   *)
(*     is FNaN.                                                            *)
(*   - A data frame is a sequence of records (rows, in row order).         *)
(***************************************************************************)
EXTENDS Integers, Sequences, FiniteSets, TLC

VARIABLES
    transactions_df,        \* argument: the transaction ledger
    retention_df,           \* argument: the demographic table (read at the merge)
    prediction_window_days, \* argument
    snapshot_freq,          \* argument, in days
    min_history_days,       \* argument
    active_recency_max,     \* argument
    pc,                     \* position in build_snapshot_churn_dataset and,
                            \* after it, in train_and_save_model
    err,                    \* the error raised, "" when none
    tx,                     \* ledger after the date filter (line 231)
    snapshot_dates,         \* line 242
    pending,                \* group keys still to be iterated (line 249)
    rows,                   \* line 244, 285
    result,                 \* the returned table (line 318)
    cursor,                 \* any-order schedule: for each account taken up by
                            \* a worker, the snapshot dates it has gone through
    feature_columns,        \* persisted schema artifact: gb_features.pkl in
                            \* the working directory of RetentionPredictor.py
    cli_artifact,           \* gb_features.pkl at resource_path, where the CLI
                            \* looks for it; <<>> when no artifact is there
    schema,                 \* feature_columns as a predictor has loaded it
    df_fit,                 \* the frame the encoder saw at training time
    X_fit,                  \* training-mode matrix
    df_in,                  \* the frame a predictor read from its CSV file
    df_out,                 \* that frame with the prediction columns added
    X_out,                  \* inference-mode matrix
    enc_pc                  \* position of the predictor program

bvars == <<transactions_df, retention_df, prediction_window_days, snapshot_freq,
           min_history_days, active_recency_max, pc, err, tx, snapshot_dates,
           pending, rows, result, cursor>>

evars == <<feature_columns, cli_artifact, schema, df_fit, X_fit, df_in, df_out, X_out, enc_pc>>

vars == <<transactions_df, retention_df, prediction_window_days, snapshot_freq,
          min_history_days, active_recency_max, pc, err, tx, snapshot_dates,
          pending, rows, result, cursor, feature_columns, cli_artifact, schema,
          df_fit, X_fit,
          df_in, df_out, X_out, enc_pc>>

(***************************************************************************)
(* Bounds of the model.                                                    *)
(***************************************************************************)
MaxTx == 2
MaxDay == 3
MaxRet == 2
MaxRows == 2

NaT == 0 - 100000
NaN == 0 - 1000
FNaN == <<0, 0>>
NullDemo == "null"

\* the values the four parameters take
WindowDays == {1, 2}
FreqDays == {1, 2}
HistoryDays == {0, 1}
RecencyDays == {0, 1}

Amounts == {1, 2}
Accounts == {1, 2}
Demos == {"MO"}

(***************************************************************************)
(* Generic helpers.                                                        *)
(***************************************************************************)
RECURSIVE GCD(_, _)
GCD(a, b) == IF b = 0 THEN a ELSE GCD(b, a % b)

Abs(n) == IF n < 0 THEN 0 - n ELSE n

\* float division n / d as an exact fraction in lowest terms (d > 0)
Frac(n, d) ==
    LET g == GCD(Abs(n), d)
    IN  <<n \div g, d \div g>>

SetMin(S) == CHOOSE x \in S : \A y \in S : x <= y
SetMax(S) == CHOOSE x \in S : \A y \in S : x >= y

RECURSIVE SeqSum(_)
SeqSum(s) == IF s = <<>> THEN 0 ELSE Head(s) + SeqSum(Tail(s))

RECURSIVE SetToSortedSeq(_)
SetToSortedSeq(S) ==
    IF S = {} THEN <<>>
    ELSE <<SetMin(S)>> \o SetToSortedSeq(S \ {SetMin(S)})

RECURSIVE Flatten(_)
Flatten(ss) == IF ss = <<>> THEN <<>> ELSE Head(ss) \o Flatten(Tail(ss))

Range(s) == {s[i] : i \in 1..Len(s)}

(***************************************************************************)
(* Part I.  build_snapshot_churn_dataset                                   *)
(***************************************************************************)

\* tx[tx[date_col].notna()]                                       (line 231)
DropNaT(df) == SelectSeq(df, LAMBDA r : r.date # NaT)

\* Series.min() / Series.max() of the date column; NaT when empty (233-234)
DateMin(df) == IF df = <<>> THEN NaT ELSE SetMin({df[i].date : i \in 1..Len(df)})
DateMax(df) == IF df = <<>> THEN NaT ELSE SetMax({df[i].date : i \in 1..Len(df)})

\* min_date + Timedelta(min_history_days); NaT propagates         (line 236)
SnapshotStartMut(df, hist_days) ==
    IF DateMin(df) = NaT THEN NaT ELSE DateMin(df) + hist_days - 1
SnapshotStart(df, hist_days) ==
    IF DateMin(df) = NaT THEN NaT ELSE DateMin(df) + hist_days

\* max_date - Timedelta(prediction_window_days)                   (line 237)
SnapshotEnd(df, window) ==
    IF DateMax(df) = NaT THEN NaT ELSE DateMax(df) - window

\* the guard of line 239; a comparison with NaT is False
NotEnoughSpan(start, end) == start # NaT /\ end # NaT /\ start >= end

\* pd.date_range(start, end, freq): start, start+freq, ... while <= end
DateRange(start, end, freq) ==
    IF end < start THEN <<>>
    ELSE [k \in 1..((end - start) \div freq + 1) |-> start + (k - 1) * freq]

\* DataFrame.sort_values(date_col): rows in ascending date order
RECURSIVE InsertByDate(_, _)
InsertByDate(r, s) ==
    IF s = <<>> THEN <<r>>
    ELSE IF r.date < Head(s).date THEN <<r>> \o s
         ELSE <<Head(s)>> \o InsertByDate(r, Tail(s))

RECURSIVE SortByDate(_)
SortByDate(df) ==
    IF df = <<>> THEN <<>>
    ELSE InsertByDate(df[Len(df)], SortByDate(SubSeq(df, 1, Len(df) - 1)))

\* the keys of groupby("Account Number"), in sorted order    (lines 247, 249)
GroupKeys(df) == SetToSortedSeq({df[i].acct : i \in 1..Len(df)})

\* one group of the groupby, sorted again by date            (lines 249-250)
\* (DfAccMut: the group is the whole frame, not the account's own rows)
DfAccMut(df, account_id) == SortByDate(df)
DfAcc(df, account_id) ==
    SortByDate(SelectSeq(SortByDate(df), LAMBDA r : r.acct = account_id))

\* hist = df_acc[df_acc[date_col] <= snap_date]                   (line 259)
HistMut(df_acc, snap_date) == df_acc
Hist(df_acc, snap_date) == SelectSeq(df_acc, LAMBDA r : r.date <= snap_date)

\* future = df_acc[(date > future_start) & (date <= future_end)]
\*                                                           (lines 279-281)
FutureMut(df_acc, snap_date, window) ==
    SelectSeq(df_acc, LAMBDA r : r.date > snap_date /\ r.date < snap_date + window)
Future(df_acc, snap_date, window) ==
    SelectSeq(df_acc, LAMBDA r : r.date > snap_date /\ r.date <= snap_date + window)

\* the eligibility filter of line 270
TooOldMut(recency_days, recency_max) == FALSE
TooOld(recency_days, recency_max) == recency_days > recency_max

\* the amounts of a frame that are not NaN (what skipna reductions see)
ValidAmts(df) ==
    LET v == SelectSeq(df, LAMBDA r : r.amt # NaN)
    IN  [i \in 1..Len(v) |-> v[i].amt]

\* hist[amt_col].sum(): NaN skipped, 0 for no value               (line 274)
SumAmt(hist) == SeqSum(ValidAmts(hist))

\* sum_amt / n_txn if n_txn > 0 else 0.0                          (line 275)
AvgAmt(sum_amt, n_txn) == IF n_txn > 0 THEN Frac(sum_amt, n_txn) ELSE <<0, 1>>

\* the sample deviation taken without the single-transaction guard:
\*     (k * sum(x^2) - sum(x)^2) / (k * (k - 1)) ; NaN when k <= 1
StdAmtMut(hist, n_txn) ==
    LET v == ValidAmts(hist)
        k == Len(v)
        s1 == SeqSum(v)
        s2 == SeqSum([i \in 1..k |-> v[i] * v[i]])
    IN  IF k <= 1 THEN FNaN ELSE Frac(k * s2 - s1 * s1, k * (k - 1))

\* hist[amt_col].std(ddof=0) if n_txn > 1 else 0.0                (line 276)
\* population variance over the k non-NaN amounts:
\*     (k * sum(x^2) - sum(x)^2) / k^2 ; NaN when k = 0
StdAmt(hist, n_txn) ==
    IF n_txn > 1
    THEN LET v == ValidAmts(hist)
             k == Len(v)
             s1 == SeqSum(v)
             s2 == SeqSum([i \in 1..k |-> v[i] * v[i]])
         IN  IF k = 0 THEN FNaN ELSE Frac(k * s2 - s1 * s1, k * k)
    ELSE <<0, 1>>

\* the body of the inner loop for one snapshot date: the rows appended to
\* `rows` (none when a `continue` is taken)                  (lines 253-297)
Example(account_id, df_acc, snap_date, window, recency_max) ==
    IF DateMin(df_acc) > snap_date THEN <<>>
    ELSE LET hist == Hist(df_acc, snap_date)
         IN  IF hist = <<>> THEN <<>>
             ELSE LET first_date == DateMin(hist)
                      last_date == DateMax(hist)
                      tenure_days == snap_date - first_date
                      recency_days == snap_date - last_date
                      n_txn == Len(hist)
                      sum_amt == SumAmt(hist)
                      future == Future(df_acc, snap_date, window)
                  IN  IF TooOld(recency_days, recency_max) THEN <<>>
                      ELSE << [acct |-> account_id,
                               snapshot_date |-> snap_date,
                               first_tx_date |-> first_date,
                               last_tx_date |-> last_date,
                               tenure_days |-> tenure_days,
                               recency_days |-> recency_days,
                               n_txn_past |-> n_txn,
                               sum_amt_past |-> sum_amt,
                               avg_amt_past |-> AvgAmt(sum_amt, n_txn),
                               std_amt_past |-> StdAmt(hist, n_txn),
                               churn_label |-> IF future = <<>> THEN 1 ELSE 0] >>

\* one iteration of the outer loop: every snapshot date of one account
\*                                                           (lines 249-297)
AccountRows(df, account_id, dates, window, recency_max) ==
    Flatten([j \in 1..Len(dates) |->
                Example(account_id, DfAcc(df, account_id), dates[j],
                        window, recency_max)])

\* churn_df.empty                                                 (line 300)
IsEmptyMut(df) == FALSE
IsEmpty(df) == df = <<>>

\* retention_df[[c for c in keep_cols ...]]                  (lines 306-314)
RetSmall(ret) == [i \in 1..Len(ret) |-> [acct |-> ret[i].acct, demo |-> ret[i].demo]]

\* the right rows matching one left row, in right order
Matches(row, right) == SelectSeq(right, LAMBDA q : q.acct = row.acct)

\* churn_df.merge(ret_small, on="Account Number", how="left")     (line 316)
\* every left row in order, once per matching right row, or once with null
\* demographic columns when no right row matches
LeftMerge(left, right) ==
    Flatten([i \in 1..Len(left) |->
        LET m == Matches(left[i], right)
        IN  IF m = <<>> THEN << [row |-> left[i], demo |-> NullDemo] >>
            ELSE [k \in 1..Len(m) |-> [row |-> left[i], demo |-> m[k].demo]]])

(***************************************************************************)
(* Inputs.                                                                 *)
(***************************************************************************)
TxRecords == [acct : Accounts, date : {NaT} \cup (0..MaxDay), amt : {NaN} \cup Amounts]

\* The ledger at rest has no order invariant and the builder sorts it, so one
\* row order per multiset of rows is enumerated: newest first, NaT rows last
\* (the order of an export "to present"), ties by account then amount.
NotBefore(r, q) ==
    \/ r.date < q.date
    \/ r.date = q.date /\ r.acct > q.acct
    \/ r.date = q.date /\ r.acct = q.acct /\ r.amt >= q.amt

RECURSIVE LedgersUpTo(_)
LedgersUpTo(n) ==
    IF n = 0 THEN {<<>>}
    ELSE LET shorter == LedgersUpTo(n - 1)
             longest == {t \in shorter : Len(t) = n - 1}
         IN  shorter \cup
             {Append(p[1], p[2]) :
                 p \in {q \in longest \X TxRecords :
                           q[1] = <<>> \/ NotBefore(q[2], q[1][Len(q[1])])}}

Ledgers == LedgersUpTo(MaxTx)

RECURSIVE SeqsUpTo(_, _)
SeqsUpTo(S, n) ==
    IF n = 0 THEN {<<>>}
    ELSE LET shorter == SeqsUpTo(S, n - 1)
         IN  shorter \cup {Append(s, x) : s \in {t \in shorter : Len(t) = n - 1}, x \in S}

\* The demographic table: up to MaxRet rows, an account may be absent or
\* appear more than once; one row order per multiset of rows.
RetRecords == [acct : Accounts, demo : Demos]
RetentionTables ==
    {t \in SeqsUpTo(RetRecords, MaxRet) :
        \A i \in 1..(Len(t) - 1) : t[i].acct <= t[i + 1].acct}

BuilderIdle ==
    /\ pc = "start"
    /\ err = ""
    /\ tx = <<>>
    /\ snapshot_dates = <<>>
    /\ pending = <<>>
    /\ rows = <<>>
    /\ result = <<>>
    /\ retention_df = <<>>
    /\ cursor = <<>>

EncoderIdle ==
    /\ feature_columns = <<>>
    /\ cli_artifact = <<>>
    /\ schema = <<>>
    /\ df_fit = <<>>
    /\ X_fit = <<>>
    /\ df_in = <<>>
    /\ df_out = <<>>
    /\ X_out = <<>>
    /\ enc_pc = "none"

Init ==
    /\ transactions_df \in Ledgers
    /\ prediction_window_days \in WindowDays
    /\ snapshot_freq \in FreqDays
    /\ min_history_days \in HistoryDays
    /\ active_recency_max \in RecencyDays
    /\ BuilderIdle
    /\ EncoderIdle

(***************************************************************************)
(* Actions of build_snapshot_churn_dataset.                                *)
(***************************************************************************)
inputs == <<transactions_df, prediction_window_days, snapshot_freq,
            min_history_days, active_recency_max>>

\* lines 210-247 when line 240 raises
PrepareInsufficient ==
    /\ pc = "start"
    /\ LET t == DropNaT(transactions_df)
       IN  /\ NotEnoughSpan(SnapshotStart(t, min_history_days),
                            SnapshotEnd(t, prediction_window_days))
           /\ tx' = t
    /\ pc' = "error"
    /\ err' = "insufficient_history"
    /\ UNCHANGED <<inputs, retention_df, snapshot_dates, pending, rows, result, cursor,
                 evars>>

\* lines 210-242 when every date is NaT: min and max are NaT, the guard of
\* line 239 is False and pd.date_range rejects the NaT bounds
PrepareNoDates ==
    /\ pc = "start"
    /\ DropNaT(transactions_df) = <<>>
    /\ tx' = <<>>
    /\ pc' = "error"
    /\ err' = "date_range_nat"
    /\ UNCHANGED <<inputs, retention_df, snapshot_dates, pending, rows, result, cursor,
                 evars>>

\* lines 210-247 on the normal path
Prepare ==
    /\ pc = "start"
    /\ LET t == DropNaT(transactions_df)
           s == SnapshotStart(t, min_history_days)
           e == SnapshotEnd(t, prediction_window_days)
       IN  /\ t # <<>>
           /\ ~NotEnoughSpan(s, e)
           /\ tx' = t
           /\ snapshot_dates' = DateRange(s, e, snapshot_freq)
           /\ pending' = GroupKeys(t)
    /\ pc' = "loop"
    /\ UNCHANGED <<inputs, retention_df, err, rows, result, cursor,
                 evars>>

\* one iteration of `for account_id, df_acc in grouped`      (lines 249-297)
ProcessAccount ==
    /\ pc = "loop"
    /\ pending # <<>>
    /\ rows' = rows \o AccountRows(tx, Head(pending), snapshot_dates,
                                   prediction_window_days, active_recency_max)
    /\ pending' = Tail(pending)
    /\ UNCHANGED <<inputs, retention_df, pc, err, tx, snapshot_dates, result, cursor,
                 evars>>

\* lines 299-301 when the frame is empty
FinishEmpty ==
    /\ pc = "loop"
    /\ pending = <<>>
    /\ IsEmpty(rows)
    /\ pc' = "error"
    /\ err' = "empty_result"
    /\ UNCHANGED <<inputs, retention_df, tx, snapshot_dates, pending, rows, result, cursor,
                 evars>>

\* lines 299-318 on the normal path
FinishMerge ==
    /\ pc = "loop"
    /\ pending = <<>>
    /\ ~IsEmpty(rows)
    /\ \E ret \in RetentionTables :
        /\ retention_df' = ret
        /\ result' = LeftMerge(rows, RetSmall(ret))
    /\ pc' = "done"
    /\ UNCHANGED <<inputs, err, tx, snapshot_dates, pending, rows, cursor,
                 evars>>

Next ==
    \/ PrepareInsufficient
    \/ PrepareNoDates
    \/ Prepare
    \/ ProcessAccount
    \/ FinishEmpty
    \/ FinishMerge

Spec == Init /\ [][Next]_vars

(***************************************************************************)
(* The whole call as a function of its ledger and parameters: how it ends  *)
(* and the example rows it has built (lines 210-301).                      *)
(***************************************************************************)
BuildRows(df, dates, window, recency_max) ==
    LET keys == GroupKeys(df)
    IN  Flatten([i \in 1..Len(keys) |->
                    AccountRows(df, keys[i], dates, window, recency_max)])

Outcome(ledger, window, freq, hist_days, recency_max) ==
    LET t == DropNaT(ledger)
        s == SnapshotStart(t, hist_days)
        e == SnapshotEnd(t, window)
    IN  IF t = <<>>
        THEN [status |-> "error", err |-> "date_range_nat", rows |-> <<>>]
        ELSE IF NotEnoughSpan(s, e)
        THEN [status |-> "error", err |-> "insufficient_history", rows |-> <<>>]
        ELSE LET r == BuildRows(t, DateRange(s, e, freq), window, recency_max)
             IN  IF IsEmpty(r)
                 THEN [status |-> "error", err |-> "empty_result", rows |-> <<>>]
                 ELSE [status |-> "done", err |-> "", rows |-> r]

(***************************************************************************)
(* Vocabulary of the properties, stated on the ledger as given.            *)
(***************************************************************************)
\* the dated transactions of an account in the ledger as given
AcctTx(account_id) ==
    SelectSeq(transactions_df, LAMBDA r : r.acct = account_id /\ r.date # NaT)

\* those at or before a date
PastTx(account_id, d) == SelectSeq(AcctTx(account_id), LAMBDA r : r.date <= d)

\* number of transactions of the account dated in (d, d + window]
InWindow(account_id, d) ==
    Cardinality({i \in 1..Len(transactions_df) :
        /\ transactions_df[i].acct = account_id
        /\ transactions_df[i].date # NaT
        /\ transactions_df[i].date > d
        /\ transactions_df[i].date <= d + prediction_window_days})

\* age in days of the account's latest transaction at or before d
Age(account_id, d) == d - DateMax(PastTx(account_id, d))

RowsFor(account_id, d) ==
    {i \in 1..Len(rows) : rows[i].acct = account_id /\ rows[i].snapshot_date = d}

\* a candidate pair that the loop skips
Skipped(account_id, d) ==
    \/ PastTx(account_id, d) = <<>>
    \/ Age(account_id, d) > active_recency_max

Candidates == {a \in Accounts : AcctTx(a) # <<>>} \X Range(snapshot_dates)

(***************************************************************************)
(* C1. Label correctness: every emitted row has churn_label = 1 exactly    *)
(* when its account has no transaction dated in                            *)
(* (snapshot_date, snapshot_date + prediction_window_days], the left end   *)
(* excluded and the right end included.                                    *)
(***************************************************************************)
C1_LabelCorrect ==
    \A i \in 1..Len(rows) :
        (rows[i].churn_label = 1) <=> (InWindow(rows[i].acct, rows[i].snapshot_date) = 0)

\* a row labelled 1 whose account has a transaction on the snapshot date,
\* and a row labelled 0 whose only later transaction is at snapshot + window
C1_Witness ==
    /\ \E i \in 1..Len(rows) :
        /\ rows[i].churn_label = 1
        /\ rows[i].last_tx_date = rows[i].snapshot_date
    /\ \E i \in 1..Len(rows) :
        /\ rows[i].churn_label = 0
        /\ \A k \in 1..Len(transactions_df) :
            (transactions_df[k].acct = rows[i].acct
                /\ transactions_df[k].date > rows[i].snapshot_date)
            => transactions_df[k].date = rows[i].snapshot_date + prediction_window_days

(***************************************************************************)
(* C2. Past/future separation: the six features of every emitted row are   *)
(* those of the account's transactions dated at or before the snapshot     *)
(* date, and of nothing else.                                              *)
(***************************************************************************)
C2_PastOnly ==
    \A i \in 1..Len(rows) :
        LET past == PastTx(rows[i].acct, rows[i].snapshot_date)
            n == Len(past)
        IN  /\ n > 0
            /\ rows[i].tenure_days = rows[i].snapshot_date - DateMin(past)
            /\ rows[i].recency_days = rows[i].snapshot_date - DateMax(past)
            /\ rows[i].n_txn_past = n
            /\ rows[i].sum_amt_past = SumAmt(past)
            /\ rows[i].avg_amt_past = AvgAmt(SumAmt(past), n)
            /\ rows[i].std_amt_past = StdAmt(past, n)

\* a row of an account that also has a transaction after the snapshot date
C2_Witness ==
    \E i \in 1..Len(rows) :
        /\ Len(AcctTx(rows[i].acct)) > rows[i].n_txn_past

(***************************************************************************)
(* C3. Eligibility filter: no emitted row has recency_days above           *)
(* active_recency_max, and no row exists for an (account, snapshot date)   *)
(* whose latest transaction at or before the snapshot is older than that.  *)
(***************************************************************************)
C3_Eligibility ==
    /\ \A i \in 1..Len(rows) : rows[i].recency_days <= active_recency_max
    /\ \A c \in Candidates :
        (PastTx(c[1], c[2]) # <<>> /\ Age(c[1], c[2]) > active_recency_max)
        => RowsFor(c[1], c[2]) = {}

\* a finished build that kept some pair and filtered another one by recency
C3_Witness ==
    /\ pc = "done"
    /\ \E c \in Candidates :
        /\ PastTx(c[1], c[2]) # <<>>
        /\ Age(c[1], c[2]) > active_recency_max
        /\ RowsFor(c[1], c[2]) = {}

(***************************************************************************)
(* C4. Insufficient history: the call fails with the insufficient-history  *)
(* error exactly when the range [min_date + min_history_days,              *)
(* max_date - prediction_window_days] is inverted; a range holding at      *)
(* least one date, start = end included, raises nothing and gets its       *)
(* snapshot dates.                                                         *)
(***************************************************************************)
C4_InsufficientIffInverted ==
    LET t == DropNaT(transactions_df)
        s == SnapshotStart(t, min_history_days)
        e == SnapshotEnd(t, prediction_window_days)
    IN  (pc # "start" /\ t # <<>>) =>
            /\ (err = "insufficient_history") <=> (s > e)
            /\ (s <= e) => (snapshot_dates # <<>> /\ snapshot_dates[1] = s)

(***************************************************************************)
(* C5. The call never returns an empty table: when every candidate         *)
(* (account, snapshot date) is skipped it ends in the empty-result error,  *)
(* and otherwise it returns at least one row.                              *)
(***************************************************************************)
C5_NeverEmpty ==
    /\ pc = "done" =>
        /\ Len(result) >= 1
        /\ \E c \in Candidates : ~Skipped(c[1], c[2])
    /\ (pc = "error" /\ err = "empty_result") =>
        \A c \in Candidates : Skipped(c[1], c[2])
    /\ (pc = "loop" /\ pending = <<>>) =>
        (IsEmpty(rows) <=> \A c \in Candidates : Skipped(c[1], c[2]))

\* the empty-result error, with a candidate that had history but was too old
C5_Witness ==
    /\ pc = "error"
    /\ err = "empty_result"
    /\ \E c \in Candidates :
        PastTx(c[1], c[2]) # <<>> /\ Age(c[1], c[2]) > active_recency_max

(***************************************************************************)
(* C9. Unresolved rows: a row whose date or amount is unresolved is        *)
(* dropped without failing the build, so the call ends as it does, with    *)
(* the same example rows, on the ledger without those rows.                *)
(***************************************************************************)
DropUnresolved(df) == SelectSeq(df, LAMBDA r : r.date # NaT /\ r.amt # NaN)

C9_UnresolvedRowsDropped ==
    pc = "done" =>
        LET o == Outcome(DropUnresolved(transactions_df), prediction_window_days,
                         snapshot_freq, min_history_days, active_recency_max)
        IN  /\ o.status = "done"
            /\ o.rows = rows

(***************************************************************************)
(* C10. One row per eligible pair: the returned table has exactly the      *)
(* example rows, one per (Account Number, snapshot_date) pair, whatever    *)
(* the demographic table is.                                               *)
(***************************************************************************)
C10_OneRowPerPair ==
    pc = "done" =>
        /\ Len(result) = Len(rows)
        /\ \A i \in 1..Len(rows) : result[i].row = rows[i]
        /\ \A i, k \in 1..Len(result) :
            (result[i].row.acct = result[k].row.acct
                /\ result[i].row.snapshot_date = result[k].row.snapshot_date)
            => i = k

(***************************************************************************)
(* C11. Single-transaction accounts.  For an account with exactly one      *)
(* dated transaction, the first example emitted for it has                 *)
(* std_amt_past = 0 and tenure_days = recency_days.                        *)
(***************************************************************************)
\* the account has exactly one dated transaction in the ledger
SingleTx(account_id) == Len(AcctTx(account_id)) = 1

\* rows[i] is the example of its account with the earliest snapshot date
IsFirstRow(i) ==
    \A k \in 1..Len(rows) :
        rows[k].acct = rows[i].acct => rows[k].snapshot_date >= rows[i].snapshot_date

\* C11 as stated: for an account with exactly one transaction, the example
\* at its first eligible snapshot date has std_amt_past = 0 and
\* tenure_days = recency_days = 0.
C11_SingleTxAllZero ==
    \A i \in 1..Len(rows) :
        (SingleTx(rows[i].acct) /\ IsFirstRow(i)) =>
            /\ rows[i].std_amt_past = <<0, 1>>
            /\ rows[i].tenure_days = 0
            /\ rows[i].recency_days = 0

\* C11 as the code has it: for an account with exactly one transaction, the
\* example at its first eligible snapshot date, which is the first snapshot
\* date on or after the transaction, has std_amt_past = 0 and
\* tenure_days = recency_days = snapshot_date - transaction date, between 0
\* and active_recency_max.
C11_SingleTxAge ==
    \A i \in 1..Len(rows) :
        (SingleTx(rows[i].acct) /\ IsFirstRow(i)) =>
            LET t == AcctTx(rows[i].acct)[1].date
                d == rows[i].snapshot_date
            IN  /\ rows[i].std_amt_past = <<0, 1>>
                /\ rows[i].n_txn_past = 1
                /\ rows[i].tenure_days = d - t
                /\ rows[i].recency_days = d - t
                /\ d - t >= 0
                /\ d - t <= active_recency_max
                /\ \A e \in Range(snapshot_dates) : e >= t => e >= d

\* the first example of a single-transaction account with a valid amount,
\* taken one day after the transaction
C11_Witness ==
    \E i \in 1..Len(rows) :
        /\ SingleTx(rows[i].acct)
        /\ IsFirstRow(i)
        /\ AcctTx(rows[i].acct)[1].amt # NaN
        /\ rows[i].tenure_days = 1
        /\ rows[i].recency_days = 1
        /\ rows[i].std_amt_past = <<0, 1>>

(***************************************************************************)
(* The per-account loop under any schedule (lines 244-299).  The groups of *)
(* the groupby are handed to workers in any order; each worker runs the    *)
(* inner loop of its account over the shared snapshot dates, one snapshot  *)
(* date per step, and appends to `rows`; the steps of different workers    *)
(* interleave freely.  The emptiness test and the merge wait for every     *)
(* worker.  The sequential loop of Spec is one of these schedules.         *)
(***************************************************************************)
\* ledgers of dated, valued transactions, closed by one late transaction of
\* account 2 so that the span is long enough for the earlier transactions
\* of both accounts to fall under snapshot dates
AnyOrderLedgers ==
    {<<[acct |-> 2, date |-> MaxDay + 1, amt |-> 1]>> \o l :
        l \in {t \in Ledgers : \A i \in 1..Len(t) :
                                  t[i].date # NaT /\ t[i].amt # NaN}}

InitAnyOrder ==
    /\ transactions_df \in AnyOrderLedgers
    /\ prediction_window_days \in WindowDays
    /\ snapshot_freq \in FreqDays
    /\ min_history_days \in HistoryDays
    /\ active_recency_max \in RecencyDays
    /\ BuilderIdle
    /\ EncoderIdle

\* a worker takes up any group not yet taken                      (line 249)
TakeAccount ==
    /\ pc = "loop"
    /\ \E a \in Range(pending) :
        /\ pending' = SelectSeq(pending, LAMBDA x : x # a)
        /\ cursor' = [x \in (DOMAIN cursor) \cup {a} |->
                          IF x = a THEN 0 ELSE cursor[x]]
    /\ UNCHANGED <<inputs, retention_df, pc, err, tx, snapshot_dates, rows, result,
                   evars>>

\* one iteration of `for snap_date in snapshot_dates` by the worker of one
\* account                                                   (lines 253-297)
WorkerStep ==
    /\ pc = "loop"
    /\ \E a \in DOMAIN cursor :
        /\ cursor[a] < Len(snapshot_dates)
        /\ rows' = rows \o Example(a, DfAcc(tx, a), snapshot_dates[cursor[a] + 1],
                                   prediction_window_days, active_recency_max)
        /\ cursor' = [cursor EXCEPT ![a] = @ + 1]
    /\ UNCHANGED <<inputs, retention_df, pc, err, tx, snapshot_dates, pending, result,
                   evars>>

\* every group has been taken up and every worker is through the dates
WorkersDone ==
    /\ pending = <<>>
    /\ \A a \in DOMAIN cursor : cursor[a] = Len(snapshot_dates)

\* lines 299-301 once the workers are through
JoinEmpty == WorkersDone /\ FinishEmpty

\* lines 299-318 once the workers are through
JoinMerge == WorkersDone /\ FinishMerge

\* the closing transaction is dated, so the NaT exit is never enabled here
NextAnyOrder ==
    \/ PrepareInsufficient
    \/ Prepare
    \/ TakeAccount
    \/ WorkerStep
    \/ JoinEmpty
    \/ JoinMerge

SpecAnyOrder == InitAnyOrder /\ [][NextAnyOrder]_vars

\* the examples of one account, in the order they were appended
RowsOf(account_id) == SelectSeq(rows, LAMBDA r : r.acct = account_id)

\* the examples of one account over the first n snapshot dates, computed from
\* a ledger that holds that account's transactions and nothing else
OwnRows(account_id, n) ==
    AccountRows(AcctTx(account_id), account_id, SubSeq(snapshot_dates, 1, n),
                prediction_window_days, active_recency_max)

\* how far the worker of an account has got
Progress(account_id) ==
    IF account_id \in DOMAIN cursor THEN cursor[account_id] ELSE 0

\* what one sequential call returns for the same arguments
Sequential ==
    Outcome(transactions_df, prediction_window_days, snapshot_freq,
            min_history_days, active_recency_max)

(***************************************************************************)
(* C12. No cross-account dependency: under every schedule, the rows        *)
(* emitted for an account are those computed from that account's own       *)
(* transactions and the shared snapshot dates; when every worker is        *)
(* through, the rows are, as a set and in number, the rows of one          *)
(* sequential call on the same arguments, and the call then ends as the    *)
(* sequential call ends.                                                   *)
(***************************************************************************)
C12_OrderIndependent ==
    /\ pc = "loop" =>
        /\ \A a \in Accounts : RowsOf(a) = OwnRows(a, Progress(a))
        /\ WorkersDone =>
            LET o == Sequential
            IN  /\ Range(rows) = Range(o.rows)
                /\ Len(rows) = Len(o.rows)
                /\ o.status = IF IsEmpty(rows) THEN "error" ELSE "done"
    /\ pc = "done" => ~IsEmpty(rows)
    /\ pc = "error" =>
        /\ rows = <<>>
        /\ Sequential.err = err

\* a finished build whose rows interleave the two accounts in an order the
\* sequential loop never produces: an example of account 2, then one of
\* account 1, then another of account 2
C12_Witness ==
    /\ pc = "done"
    /\ \E i, j, k \in 1..Len(rows) :
        /\ i < j
        /\ j < k
        /\ rows[i].acct = 2
        /\ rows[j].acct = 1
        /\ rows[k].acct = 2
    /\ rows # Sequential.rows

(***************************************************************************)
(* The one-year scenario: a non-leap year, day 0 = Jan 1, day 364 = Dec 31.*)
(* Account 1 gives 100 on Jan 1, Feb 1 and Mar 1 and nothing afterwards;   *)
(* account 2 gives on Dec 31 and on one other day of the year, so that the *)
(* ledger spans the year.  min_history_days = 30,                          *)
(* prediction_window_days = 60, snapshot_freq = 30D,                       *)
(* active_recency_max = 90.                                                *)
(***************************************************************************)
DaysBeforeMonth == <<0, 31, 59, 90, 120, 151, 181, 212, 243, 273, 304, 334>>

\* day number of a calendar date of the non-leap year
Day(month, day) == DaysBeforeMonth[month] + day - 1

YearLedger(d) ==
    << [acct |-> 1, date |-> Day(1, 1), amt |-> 100],
       [acct |-> 1, date |-> Day(2, 1), amt |-> 100],
       [acct |-> 1, date |-> Day(3, 1), amt |-> 100],
       [acct |-> 2, date |-> d, amt |-> 100],
       [acct |-> 2, date |-> Day(12, 31), amt |-> 100] >>

InitYear ==
    /\ transactions_df \in {YearLedger(d) : d \in Day(1, 1)..Day(12, 31)}
    /\ prediction_window_days = 60
    /\ snapshot_freq = 30
    /\ min_history_days = 30
    /\ active_recency_max = 90
    /\ BuilderIdle
    /\ EncoderIdle

\* the year's span is sufficient and account 1 always yields rows, so the
\* two error exits are never enabled in the scenario
NextYear ==
    \/ Prepare
    \/ ProcessAccount
    \/ FinishMerge

SpecYear == InitYear /\ [][NextYear]_vars

\* the row of account 1 at a snapshot date has the given values
YearRow(d, tenure, recency) ==
    \E i \in RowsFor(1, d) :
        /\ rows[i].tenure_days = tenure
        /\ rows[i].recency_days = recency
        /\ rows[i].n_txn_past = 3
        /\ rows[i].sum_amt_past = 300
        /\ rows[i].avg_amt_past = <<100, 1>>
        /\ rows[i].churn_label = 1

(***************************************************************************)
(* C8, as stated. In the one-year scenario the build emits a row for       *)
(* account 1 with snapshot_date = Mar 1, tenure_days = 59,                 *)
(* recency_days = 0, n_txn_past = 3, sum_amt_past = 300,                   *)
(* avg_amt_past = 100 and churn_label = 1.                                 *)
(***************************************************************************)
C8_Mar1Row ==
    pc = "done" => YearRow(Day(3, 1), 59, 0)

(***************************************************************************)
(* C8, amended. The snapshot dates are Jan 31 + 30k days, so Mar 1 is not  *)
(* one of them: the build emits no row dated Mar 1, and the row of         *)
(* account 1 at the snapshot date Mar 2 has tenure_days = 60,              *)
(* recency_days = 1, n_txn_past = 3, sum_amt_past = 300,                   *)
(* avg_amt_past = 100 and churn_label = 1.                                 *)
(***************************************************************************)
C8_Mar2Row ==
    pc = "done" =>
        /\ YearRow(Day(3, 2), 60, 1)
        /\ \A i \in 1..Len(rows) : rows[i].snapshot_date # Day(3, 1)
        /\ snapshot_dates[1] = Day(1, 31)
        /\ snapshot_dates[2] = Day(3, 2)

\* the finished build of the scenario, with its row on Mar 2
C8_Witness ==
    /\ pc = "done"
    /\ RowsFor(1, Day(3, 2)) # {}
    /\ DateMin(tx) = Day(1, 1)
    /\ DateMax(tx) = Day(12, 31)

(***************************************************************************)
(* Part II.  Feature-matrix encoding, training and prediction.             *)
(*                                                                         *)
(* A frame is [cols, rows, dtype, categories]: the set of columns it has,  *)
(* its rows (a cell per column), and for each categorical feature column   *)
(* it has the pandas dtype of that column and, for dtype category, the     *)
(* declared categories in their order.  A missing categorical cell is      *)
(* NullCat whatever the dtype.  A matrix is [cols, rows]: the ordered      *)
(* column names and, per row, the cells in that order; an indicator cell   *)
(* is 1 or 0, a cell passed through from a float64 column is the cell's    *)
(* number or NaN.  A CSV file is [cols, rows]: text carries neither dtypes *)
(* nor declared categories.  The classifier (train_test_split, fit,        *)
(* predict_proba) is an external collaborator: of it the model keeps when  *)
(* it raises, and its probabilities as opaque values.                      *)
(***************************************************************************)
NullCat == "null"

\* RetentionPredictor.py 329-336, 453-460; DonorChurnPredictor_CLI.py 38-45
NumericFeatures ==
    <<"tenure_days", "recency_days", "n_txn_past", "sum_amt_past",
      "avg_amt_past", "std_amt_past">>

\* the numeric features whose cells are fractions in this model
RealFeatures == {"avg_amt_past", "std_amt_past"}

\* RetentionPredictor.py 339-344, 463-468; DonorChurnPredictor_CLI.py 48-53
CategoricalFeatures == <<"Primary State", "Gender", "Employer", "Groups">>

\* the category values of the model, in the sorted order pandas keeps
CatLevels == <<"A", "B", "C">>

\* [f for f in features if f in df.columns]
PresentIn(features, df) == SelectSeq(features, LAMBDA c : c \in df.cols)

\* pd.get_dummies without `columns` encodes the columns of these dtypes
\* and passes every other column through
EncodedDtypes == {"object", "string", "category"}

IsEncoded(df, c) == df.dtype[c] \in EncodedDtypes

\* the levels of an encoded column: the declared categories of a category
\* column, else the distinct non-null values that occur, sorted
Levels(df, c) ==
    IF df.dtype[c] = "category" THEN df.categories[c]
    ELSE SelectSeq(CatLevels, LAMBDA v : \E i \in 1..Len(df.rows) : df.rows[i][c] = v)

\* a cell of a column passed through: the missing value is the float NaN
PassCell(v) == IF v = NullCat THEN NaN ELSE v

\* the columns get_dummies makes of one column: for an encoded column one
\* indicator per level, then "<column>_nan" when dummy_na; for any other
\* column the column itself
DummyNames(df, c, dummy_na) ==
    IF IsEncoded(df, c)
    THEN LET lv == Levels(df, c)
         IN  [k \in 1..Len(lv) |-> c \o "_" \o lv[k]]
             \o (IF dummy_na THEN <<c \o "_nan">> ELSE <<>>)
    ELSE <<c>>

DummyCells(df, c, dummy_na, row) ==
    IF IsEncoded(df, c)
    THEN LET lv == Levels(df, c)
         IN  [k \in 1..Len(lv) |-> IF row[c] = lv[k] THEN 1 ELSE 0]
             \o (IF dummy_na THEN <<IF row[c] = NullCat THEN 1 ELSE 0>> ELSE <<>>)
    ELSE <<PassCell(row[c])>>

\* pd.get_dummies(df[categorical_features], dummy_na=...): the columns
\* passed through come first, then the indicators of the encoded columns;
\* the empty frame on the same index when no categorical column is present
GetDummies(df, cats, dummy_na) ==
    LET order == SelectSeq(cats, LAMBDA c : ~IsEncoded(df, c))
                 \o SelectSeq(cats, LAMBDA c : IsEncoded(df, c))
    IN  [cols |-> Flatten([k \in 1..Len(order) |-> DummyNames(df, order[k], dummy_na)]),
         rows |-> [i \in 1..Len(df.rows) |->
                     Flatten([k \in 1..Len(order) |->
                                DummyCells(df, order[k], dummy_na, df.rows[i])])]]

\* df[numeric_features].fillna(0.0), one cell
FillNa(c, v) ==
    IF c \in RealFeatures
    THEN (IF v = FNaN THEN <<0, 1>> ELSE v)
    ELSE (IF v = NaN THEN 0 ELSE v)

XNum(df, nums) ==
    [cols |-> nums,
     rows |-> [i \in 1..Len(df.rows) |->
                 [k \in 1..Len(nums) |-> FillNa(nums[k], df.rows[i][nums[k]])]]]

\* pd.concat([X_num, df_cats], axis=1)
ConcatColumns(A, B) ==
    [cols |-> A.cols \o B.cols,
     rows |-> [i \in 1..Len(A.rows) |-> A.rows[i] \o B.rows[i]]]

\* the encoding shared, as three copies, by training and prediction
EncodeFrame(df, dummy_na) ==
    ConcatColumns(XNum(df, PresentIn(NumericFeatures, df)),
                  GetDummies(df, PresentIn(CategoricalFeatures, df), dummy_na))

\* X.reindex(columns=feature_columns, fill_value=0.0)
ReindexMut(X, columns) == X
Reindex(X, columns) ==
    [cols |-> columns,
     rows |-> [i \in 1..Len(X.rows) |->
                 [j \in 1..Len(columns) |->
                    IF \E k \in 1..Len(X.cols) : X.cols[k] = columns[j]
                    THEN X.rows[i][CHOOSE k \in 1..Len(X.cols) : X.cols[k] = columns[j]]
                    ELSE 0]]]

\* train_gradient_boosting_model: df[df["churn_label"].notna()]   (line 327)
LabelledRows(df) ==
    [df EXCEPT !.rows = SelectSeq(df.rows, LAMBDA r : r["churn_label"] # NaN)]

\* train_gradient_boosting_model, the matrix X            (lines 329-354)
TrainMatrix(df) == EncodeFrame(df, TRUE)

\* DonorChurnPredictor_CLI.build_feature_matrix               (lines 31-67)
BuildFeatureMatrix(df, columns) == Reindex(EncodeFrame(df, TRUE), columns)

\* interactive_predict_from_csv, the matrix X             (lines 453-480)
InteractiveMatrix(df, columns) == Reindex(EncodeFrame(df, TRUE), columns)

(***************************************************************************)
(* The training frame.                                                     *)
(***************************************************************************)
\* Series.astype("category") on the Employer column of the demographic
\* table (lines 169-180): the declared categories are the distinct
\* non-null values of the whole column, sorted
DeclaredCategories(ret) ==
    SelectSeq(CatLevels, LAMBDA v : \E i \in 1..Len(ret) : ret[i].demo = v)

\* the columns of the frame build_snapshot_churn_dataset returns
FrameCols ==
    {"Account Number", "snapshot_date", "first_tx_date", "last_tx_date",
     "tenure_days", "recency_days", "n_txn_past", "sum_amt_past",
     "avg_amt_past", "std_amt_past", "churn_label", "Employer"}

FrameRow(m) ==
    [c \in FrameCols |->
        CASE c = "Account Number" -> m.row.acct
          [] c = "snapshot_date" -> m.row.snapshot_date
          [] c = "first_tx_date" -> m.row.first_tx_date
          [] c = "last_tx_date" -> m.row.last_tx_date
          [] c = "tenure_days" -> m.row.tenure_days
          [] c = "recency_days" -> m.row.recency_days
          [] c = "n_txn_past" -> m.row.n_txn_past
          [] c = "sum_amt_past" -> m.row.sum_amt_past
          [] c = "avg_amt_past" -> m.row.avg_amt_past
          [] c = "std_amt_past" -> m.row.std_amt_past
          [] c = "churn_label" -> m.row.churn_label
          [] OTHER -> m.demo]

\* churn_snapshots as train_and_save_model hands it on (lines 404-415): the
\* merged table, whose Employer column keeps the category dtype and the
\* declared categories of the demographic table
ChurnFrame(merged, ret) ==
    [cols |-> FrameCols,
     rows |-> [i \in 1..Len(merged) |-> FrameRow(merged[i])],
     dtype |-> [c \in {"Employer"} |-> "category"],
     categories |-> [c \in {"Employer"} |-> DeclaredCategories(ret)]]

\* train_test_split(test_size=0.25, stratify=y) and gb.fit (lines 357-371)
\* return only when the test part, ceil(n / 4), and the train part hold at
\* least one row per class, every class has two rows or more, and there
\* are two classes; otherwise one of them raises ValueError
CountLabel(df, y) == Cardinality({i \in 1..Len(df.rows) : df.rows[i]["churn_label"] = y})

Trainable(df) ==
    LET n == Len(df.rows)
        n_test == (n + 3) \div 4
        n_train == n - n_test
    IN  /\ CountLabel(df, 0) >= 2
        /\ CountLabel(df, 1) >= 2
        /\ n_test >= 2
        /\ n_train >= 2

(***************************************************************************)
(* CSV files handed to the predictors: any subset of one numeric and one   *)
(* categorical feature column, up to MaxRows rows.                         *)
(***************************************************************************)
NumCells == {NaN, 3}
CatCells == {NullCat, "A", "B", "C"}
InputCols == {"n_txn_past", "Employer"}

RowsOver(cs) ==
    {r \in [n_txn_past : NumCells, Employer : CatCells] :
        /\ ("n_txn_past" \notin cs) => r.n_txn_past = NaN
        /\ ("Employer" \notin cs) => r.Employer = NullCat}

Tables ==
    UNION {{[cols |-> cs, rows |-> r] : r \in SeqsUpTo(RowsOver(cs), MaxRows)} :
              cs \in SUBSET InputCols}

\* the dtype pd.read_csv infers for a categorical feature column: float64
\* when the column has rows and no value in any of them, else object
InferDtype(csv, c) ==
    IF csv.rows # <<>> /\ \A i \in 1..Len(csv.rows) : csv.rows[i][c] = NullCat
    THEN "float64"
    ELSE "object"

\* pd.read_csv(csv_path)
ReadCsv(csv) ==
    LET cats == {c \in csv.cols : \E k \in 1..Len(CategoricalFeatures) :
                                      CategoricalFeatures[k] = c}
    IN  [cols |-> csv.cols,
         rows |-> csv.rows,
         dtype |-> [c \in cats |-> InferDtype(csv, c)],
         categories |-> [c \in cats |-> <<>>]]

\* the training rows without their label, written out as a CSV file
TrainingCsv(df) ==
    [cols |-> df.cols \ {"churn_label"},
     rows |-> [i \in 1..Len(df.rows) |->
                 [c \in df.cols \ {"churn_label"} |-> df.rows[i][c]]]]

\* model.predict_proba(X)[:, 1] for one row of X, and the np.where of
\* DonorChurnPredictor_CLI.py 108-112 on it: values of the classifier
Proba(x) == <<"predict_proba", x>>
Risk(x) == <<"churn_risk", x>>

\* df after df[name] = values, for each listed name
WithColumns(df, X, names) ==
    [df EXCEPT
        !.cols = @ \cup names,
        !.rows = [i \in 1..Len(df.rows) |->
                    [c \in (DOMAIN df.rows[i]) \cup names |->
                        IF c = "churn_probability" THEN Proba(X.rows[i])
                        ELSE IF c = "churn_risk" THEN Risk(X.rows[i])
                        ELSE df.rows[i][c]]]]

(***************************************************************************)
(* train_and_save_model and the two predictors.                            *)
(***************************************************************************)
\* The cleaned ledgers train_and_save_model is run on: a gift of 100 per
\* transaction, day 0 the first day.  With the fixed parameters 90 / 30D /
\* 90 / 90 they give, in turn: no dated row; too short a span; five
\* examples of account 1 with both labels twice; the same with three more
\* examples of account 2; five examples with one label occurring once.
Gift(account_id, d) == [acct |-> account_id, date |-> d, amt |-> 100]

TrainLedgers ==
    { <<>>,
      <<Gift(2, 100), Gift(1, 0)>>,
      <<Gift(2, 300), Gift(1, 130), Gift(1, 100), Gift(1, 0)>>,
      <<Gift(2, 300), Gift(1, 130), Gift(2, 100), Gift(1, 100), Gift(1, 0)>>,
      <<Gift(2, 300), Gift(1, 200), Gift(1, 100), Gift(1, 0)>> }

\* The cleaned demographic table: at most one row per account, up to MaxRet
\* rows, the Employer cell a value or missing.
EmployerRecords == [acct : Accounts, demo : CatCells]
EmployerTables ==
    {t \in SeqsUpTo(EmployerRecords, MaxRet) :
        \A i \in 1..(Len(t) - 1) : t[i].acct < t[i + 1].acct}

\* The schema of an artifact shipped with the CLI (beside the script, or
\* unpacked into sys._MEIPASS by the one-file executable): that of an
\* earlier training which saw the employers B and C
\*                                  (DonorChurnPredictor_CLI.py 7-12)
BundledFeatures == NumericFeatures \o <<"Employer_B", "Employer_C", "Employer_nan">>

\* The state before train_and_save_model has run: no artifact in the
\* working directory.  Either there is none beside the CLI, or the CLI was
\* shipped with one to a site that has no ledger to train on.
InitEnc ==
    /\ prediction_window_days = 90
    /\ snapshot_freq = 30
    /\ min_history_days = 90
    /\ active_recency_max = 90
    /\ BuilderIdle
    /\ feature_columns = <<>>
    /\ schema = <<>>
    /\ df_fit = <<>>
    /\ X_fit = <<>>
    /\ df_in = <<>>
    /\ df_out = <<>>
    /\ X_out = <<>>
    /\ enc_pc = "none"
    /\ \/ transactions_df \in TrainLedgers /\ cli_artifact = <<>>
       \/ transactions_df = <<>> /\ cli_artifact = BundledFeatures

\* lines 299-318 on the normal path, on the cleaned demographic table
FinishMergeCleaned ==
    /\ pc = "loop"
    /\ pending = <<>>
    /\ ~IsEmpty(rows)
    /\ \E ret \in EmployerTables :
        /\ retention_df' = ret
        /\ result' = LeftMerge(rows, RetSmall(ret))
    /\ pc' = "done"
    /\ UNCHANGED <<inputs, err, tx, snapshot_dates, pending, rows, cursor,
                 evars>>

\* train_gradient_boosting_model and the two joblib.dump of
\* train_and_save_model, on the frame the builder returned  (lines 413-419)
TrainAndSave ==
    /\ pc = "done"
    /\ LET df == LabelledRows(ChurnFrame(result, retention_df))
       IN  /\ Trainable(df)
           /\ df_fit' = df
           /\ X_fit' = TrainMatrix(df)
           /\ feature_columns' = TrainMatrix(df).cols
           /\ \E beside_cli \in BOOLEAN :
                cli_artifact' = IF beside_cli THEN TrainMatrix(df).cols
                                ELSE cli_artifact
    /\ pc' = "saved"
    /\ UNCHANGED <<inputs, retention_df, err, tx, snapshot_dates, pending, rows,
                   result, cursor, schema, df_in, df_out, X_out, enc_pc>>

\* train_gradient_boosting_model raises in train_test_split or in fit:
\* nothing is dumped                                        (lines 357-371)
TrainFails ==
    /\ pc = "done"
    /\ ~Trainable(LabelledRows(ChurnFrame(result, retention_df)))
    /\ pc' = "error"
    /\ err' = "training_failed"
    /\ UNCHANGED <<inputs, retention_df, tx, snapshot_dates, pending, rows, result,
                   cursor, evars>>

\* gb_model.pkl and gb_features.pkl exist in the working directory
ArtifactsSaved == pc = "saved"

\* os.path.exists(resource_path(...)) for both artifacts
\*                                  (DonorChurnPredictor_CLI.py 7-22)
ArtifactsAtCLI == cli_artifact # <<>>

\* load_model_and_features when an artifact is missing at resource_path,
\* whatever the trainer saved elsewhere: sys.exit(1)
\*                                  (DonorChurnPredictor_CLI.py 14-25)
CLIMissingArtifact ==
    /\ enc_pc = "none"
    /\ ~ArtifactsAtCLI
    /\ enc_pc' = "cli_exit_artifact"
    /\ UNCHANGED <<bvars, feature_columns, cli_artifact,
                   schema, df_fit, X_fit, df_in, df_out, X_out>>

\* load_model_and_features reads the artifacts at resource_path; main
\* then waits for the path                           (lines 27-29, 77-79)
CLILoad ==
    /\ enc_pc = "none"
    /\ ArtifactsAtCLI
    /\ schema' = cli_artifact
    /\ enc_pc' = "cli_loaded"
    /\ UNCHANGED <<bvars, feature_columns, cli_artifact,
                   df_fit, X_fit, df_in, df_out, X_out>>

\* the path names no file: sys.exit(1)                        (lines 85-88)
CLIFileNotFound ==
    /\ enc_pc = "cli_loaded"
    /\ enc_pc' = "cli_exit_file"
    /\ UNCHANGED <<bvars, feature_columns, cli_artifact,
                   schema, df_fit, X_fit, df_in, df_out, X_out>>

\* pd.read_csv raises: sys.exit(1)                            (lines 90-95)
CLIReadFails ==
    /\ enc_pc = "cli_loaded"
    /\ enc_pc' = "cli_exit_read"
    /\ UNCHANGED <<bvars, feature_columns, cli_artifact,
                   schema, df_fit, X_fit, df_in, df_out, X_out>>

\* the CSV files a predictor may be pointed at: any small file, or, once
\* a training has run, the training rows written out
CsvFiles == Tables \cup (IF ArtifactsSaved THEN {TrainingCsv(df_fit)} ELSE {})

\* GradientBoostingClassifier.predict_proba validates X with check_array,
\* which raises ValueError on a matrix of 0 rows     (CLI 103, RP line 483)
Predictable(X) == Len(X.rows) >= 1

\* DonorChurnPredictor_CLI.main on a file with a header line and no data
\* row: read_csv and build_feature_matrix succeed, predict_proba raises and
\* nothing catches it; df gets no column, nothing is saved   (lines 90-103)
CLIPredictRaises ==
    /\ enc_pc = "cli_loaded"
    /\ \E csv \in CsvFiles :
        LET df == ReadCsv(csv)
            X == BuildFeatureMatrix(df, schema)
        IN  /\ ~Predictable(X)
            /\ df_in' = df
            /\ X_out' = X
    /\ enc_pc' = "cli_raise_predict"
    /\ UNCHANGED <<bvars, feature_columns, cli_artifact,
                   schema, df_fit, X_fit, df_out>>

\* DonorChurnPredictor_CLI.main: read_csv, build_feature_matrix against
\* the schema loaded at line 77, predict_proba, the two new columns
\*                                                           (lines 90-112)
PredictCLI ==
    /\ enc_pc = "cli_loaded"
    /\ \E csv \in CsvFiles :
        LET df == ReadCsv(csv)
            X == BuildFeatureMatrix(df, schema)
        IN  /\ Predictable(X)
            /\ df_in' = df
            /\ X_out' = X
            /\ df_out' = WithColumns(df, X, {"churn_probability", "churn_risk"})
    /\ enc_pc' = "predicted_cli"
    /\ UNCHANGED <<bvars, feature_columns, cli_artifact,
                   schema, df_fit, X_fit>>

\* df.to_csv succeeds and the program ends                  (lines 124-139)
CLISave ==
    /\ enc_pc = "predicted_cli"
    /\ enc_pc' = "cli_done"
    /\ UNCHANGED <<bvars, feature_columns, cli_artifact,
                   schema, df_fit, X_fit, df_in, df_out, X_out>>

\* df.to_csv raises: sys.exit(1)                            (lines 132-137)
CLISaveFails ==
    /\ enc_pc = "predicted_cli"
    /\ enc_pc' = "cli_exit_save"
    /\ UNCHANGED <<bvars, feature_columns, cli_artifact,
                   schema, df_fit, X_fit, df_in, df_out, X_out>>

\* interactive_predict_from_csv when an artifact is missing (lines 438-440)
InteractiveMissingArtifact ==
    /\ enc_pc = "none"
    /\ ~ArtifactsSaved
    /\ enc_pc' = "interactive_return_artifact"
    /\ UNCHANGED <<bvars, feature_columns, cli_artifact,
                   schema, df_fit, X_fit, df_in, df_out, X_out>>

\* the two joblib.load; the function then waits for the path
\*                                                         (lines 442-445)
InteractiveLoad ==
    /\ enc_pc = "none"
    /\ ArtifactsSaved
    /\ schema' = feature_columns
    /\ enc_pc' = "interactive_loaded"
    /\ UNCHANGED <<bvars, feature_columns, cli_artifact,
                   df_fit, X_fit, df_in, df_out, X_out>>

\* the path names no file: return                          (lines 446-448)
InteractiveFileNotFound ==
    /\ enc_pc = "interactive_loaded"
    /\ enc_pc' = "interactive_return_file"
    /\ UNCHANGED <<bvars, feature_columns, cli_artifact,
                   schema, df_fit, X_fit, df_in, df_out, X_out>>

\* pd.read_csv raises and nothing catches it                    (line 450)
InteractiveReadFails ==
    /\ enc_pc = "interactive_loaded"
    /\ enc_pc' = "interactive_raise_read"
    /\ UNCHANGED <<bvars, feature_columns, cli_artifact,
                   schema, df_fit, X_fit, df_in, df_out, X_out>>

\* interactive_predict_from_csv on a file with a header line and no data
\* row: the encoding succeeds, predict_proba raises and nothing catches
\* it; df gets no column, the save question is not asked (lines 450-483)
InteractivePredictRaises ==
    /\ enc_pc = "interactive_loaded"
    /\ \E csv \in CsvFiles :
        LET df == ReadCsv(csv)
            X == InteractiveMatrix(df, schema)
        IN  /\ ~Predictable(X)
            /\ df_in' = df
            /\ X_out' = X
    /\ enc_pc' = "interactive_raise_predict"
    /\ UNCHANGED <<bvars, feature_columns, cli_artifact,
                   schema, df_fit, X_fit, df_out>>

\* interactive_predict_from_csv: read_csv, the encoding against the schema
\* loaded at line 443, predict_proba, the new column      (lines 450-484)
PredictInteractive ==
    /\ enc_pc = "interactive_loaded"
    /\ \E csv \in CsvFiles :
        LET df == ReadCsv(csv)
            X == InteractiveMatrix(df, schema)
        IN  /\ Predictable(X)
            /\ df_in' = df
            /\ X_out' = X
            /\ df_out' = WithColumns(df, X, {"churn_probability"})
    /\ enc_pc' = "predicted_interactive"
    /\ UNCHANGED <<bvars, feature_columns, cli_artifact,
                   schema, df_fit, X_fit>>

\* the answer is y and df.to_csv raises (the directory of the typed path
\* does not exist, no permission): nothing catches it       (lines 495-498)
InteractiveSaveFails ==
    /\ enc_pc = "predicted_interactive"
    /\ enc_pc' = "interactive_raise_save"
    /\ UNCHANGED <<bvars, feature_columns, cli_artifact,
                   schema, df_fit, X_fit, df_in, df_out, X_out>>

\* the sample is printed and the predictions are saved, or the answer is
\* not y: no tracked state differs between the two        (lines 486-501)
InteractiveFinish ==
    /\ enc_pc = "predicted_interactive"
    /\ enc_pc' = "interactive_return"
    /\ UNCHANGED <<bvars, feature_columns, cli_artifact,
                   schema, df_fit, X_fit, df_in, df_out, X_out>>

\* with min_history_days = 90 = active_recency_max the account of the
\* earliest transaction is eligible at the first snapshot date, so the
\* empty-result exit of the builder is never enabled here
NextEnc ==
    \/ PrepareNoDates
    \/ PrepareInsufficient
    \/ Prepare
    \/ ProcessAccount
    \/ FinishMergeCleaned
    \/ TrainAndSave
    \/ TrainFails
    \/ CLIMissingArtifact
    \/ CLILoad
    \/ CLIFileNotFound
    \/ CLIReadFails
    \/ CLIPredictRaises
    \/ PredictCLI
    \/ CLISave
    \/ CLISaveFails
    \/ InteractiveMissingArtifact
    \/ InteractiveLoad
    \/ InteractiveFileNotFound
    \/ InteractiveReadFails
    \/ InteractivePredictRaises
    \/ PredictInteractive
    \/ InteractiveSaveFails
    \/ InteractiveFinish

SpecEnc == InitEnc /\ [][NextEnc]_vars

\* a predictor has added its prediction columns to the input frame
Predicted ==
    enc_pc \in {"predicted_cli", "cli_done", "cli_exit_save",
                "predicted_interactive", "interactive_return",
                "interactive_raise_save"}

\* a predictor has encoded its input and X_out is the matrix it built,
\* whether or not the classifier accepted it
Encoded ==
    \/ Predicted
    \/ enc_pc \in {"cli_raise_predict", "interactive_raise_predict"}

\* whether the encoding of the input has a column of that name
Produces(df, name) ==
    \/ name \in df.cols /\ \E k \in 1..Len(NumericFeatures) : NumericFeatures[k] = name
    \/ \E k \in 1..Len(CategoricalFeatures) :
        LET c == CategoricalFeatures[k]
        IN  /\ c \in df.cols
            /\ IF IsEncoded(df, c)
               THEN \/ name = c \o "_nan"
                    \/ \E j \in 1..Len(Levels(df, c)) : name = c \o "_" \o Levels(df, c)[j]
               ELSE name = c

\* the predictor that ran is DonorChurnPredictor_CLI.py
FromCLI ==
    enc_pc \in {"predicted_cli", "cli_done", "cli_exit_save", "cli_raise_predict"}

(***************************************************************************)
(* C6. Schema conformance: in inference mode the matrix has exactly the    *)
(* columns of the schema the predictor loaded from its own artifact, in    *)
(* that order, whatever that schema is, and one row per input row;         *)
(* a schema column that the encoding of the input does not produce is 0    *)
(* in every row, and a column outside the schema never appears.            *)
(***************************************************************************)
C6_SchemaConformance ==
    Encoded =>
        /\ X_out.cols = schema
        /\ schema = IF FromCLI THEN cli_artifact ELSE feature_columns
        /\ Len(X_out.rows) = Len(df_in.rows)
        /\ \A i \in 1..Len(X_out.rows) :
            /\ Len(X_out.rows[i]) = Len(schema)
            /\ \A j \in 1..Len(schema) :
                ~Produces(df_in, schema[j]) => X_out.rows[i][j] = 0
        /\ \A j \in 1..Len(X_out.cols) :
            \E k \in 1..Len(schema) : schema[k] = X_out.cols[j]

\* training saw Employer in {A, B} and saved beside the CLI; the CLI's
\* input has Employer in {B, C}
C6_Witness ==
    /\ Predicted
    /\ FromCLI
    /\ schema = NumericFeatures \o <<"Employer_A", "Employer_B", "Employer_nan">>
    /\ Len(df_in.rows) = 2
    /\ df_in.cols = {"Employer"}
    /\ df_in.rows[1].Employer = "B"
    /\ df_in.rows[2].Employer = "C"
    /\ X_out.rows = << <<0, 0, 0, 0, 0, 0, 0, 1, 0>>, <<0, 0, 0, 0, 0, 0, 0, 0, 0>> >>

(***************************************************************************)
(* C7. Round trip: encoding the training rows in inference mode against    *)
(* the schema their training-mode encoding derived gives the training      *)
(* matrix again: same columns, same order, same cells.                     *)
(***************************************************************************)
C7_RoundTrip ==
    (/\ Encoded
     /\ ArtifactsSaved
     /\ schema = feature_columns
     /\ df_in = ReadCsv(TrainingCsv(df_fit))) => X_out = X_fit

====
